---- MODULE Spec2Model ----
(***************************************************************************)
(* A model of src/solution.py: a genetic algorithm for the Euclidean       *)
(* travelling salesman problem (World, PossibleSolution, EvolutionMachine  *)
(* and the driver loop of the script).                                     *)
(*                                                                         *)
(* Numbers.  The program computes costs as 64-bit floats, sums of          *)
(* sqrt(dx*dx + dy*dy).  The model takes its worlds from point sets whose  *)
(* pairwise distances are integers or integer multiples of sqrt(2), and    *)
(* computes with the exact values a + b*sqrt(2), kept as records           *)
(* [a |-> a, b |-> b].  Sums, differences and comparisons are exact.       *)
(*                                                                         *)
(* Randomness.  random(), randint() and shuffle() are library calls.  The  *)
(* engine reads its uniform draws from a tape: a sequence of values        *)
(* k/RandomGrid, k in 0..RandomGrid-1, fixed in the initial state and read *)
(* cyclically.  Every run of the engine is then one behaviour, and the set *)
(* Tapes is the set of random sources checked.                             *)
(***************************************************************************)
EXTENDS Integers, Sequences, FiniteSets

VARIABLES
    points_count,     \* World.__init__: points_count
    points_set,       \* World.__init__: points_set, empty once __init__ is over
    drawn,            \* World.__init__: Point(x, y) of the last draw
    world,            \* EvolutionMachine.world.points: a sequence of points
    population_size,  \* EvolutionMachine.population_size
    population,       \* EvolutionMachine.population: a sequence of paths
    population_set,   \* __init__: population_set, empty once __init__ is over
    tape,             \* the random source: a sequence of grid values
    rpos,             \* how many values of the tape were consumed, mod its length
    pc,               \* where the run is: see the actions
    same_count,       \* __iter__: same_count
    last,             \* __iter__: last (Inf at the start)
    next_solution,    \* __iter__: next_solution, the value of next(self)
    yielded,          \* the costs of the solutions the generator has yielded
    iteration,        \* driver: iteration
    last_cost,        \* driver: last_cost
    printed,          \* driver: the final line printed, <<iteration, last_cost>>
    error,            \* the exception that ended the run, "" when none
    gen               \* the locals of the last __next__ call (see NextCall)

\* The locals of World.__init__.
world_locals == <<points_count, points_set, drawn>>

vars == <<world_locals, world, population_size, population, population_set, tape, rpos, pc, same_count, last,
          next_solution, yielded, iteration, last_cost, printed, error, gen>>

----------------------------------------------------------------------------
(* Bounds of the model and constants of the program.                       *)

\* The uniform draws are the values k / RandomGrid, k in 0 .. RandomGrid-1.
RandomGrid == 5
\* The crossover is checked on its own for the worlds of 2 to
\* MaxCrossoverPoints points.
MaxCrossoverPoints == 4
\* __init__ is checked on its own for the worlds of 0 to MaxInitPoints points;
\* a shuffle gives a path already collected or one of the ShuffleFan paths of
\* lowest rank not collected yet.
MaxInitPoints == 5
ShuffleFan == 2

\* EvolutionMachine.SELECTION_FRACTION = 0.5, as a fraction.
\* World: the coordinates are drawn from COORDINATE_MIN .. COORDINATE_MAX.
\* COORDINATE_MAX is 69420 in the program; the worlds that are built point
\* by point take the smaller range COORDINATE_MIN .. CoordinateMax.
COORDINATE_MIN == 0
CoordinateMax == 1

SELECTION_FRACTION_NUM == 1
SELECTION_FRACTION_DEN == 2
\* EvolutionMachine.MUTATION_CHANCE = 0.1, as a fraction.
MUTATION_CHANCE_NUM == 1
MUTATION_CHANCE_DEN == 10
STOP_CONDITION_SAME_COUNT == 16

----------------------------------------------------------------------------
(* Exact arithmetic on the numbers a + b*sqrt(2).                          *)

Num(a, b) == [a |-> a, b |-> b]
Zero == Num(0, 0)
\* +inf of math: the initial value of last and last_cost.
Inf == [inf |-> TRUE]

Add(x, y) == Num(x.a + y.a, x.b + y.b)
Sub(x, y) == Num(x.a - y.a, x.b - y.b)
Times(k, x) == Num(k * x.a, k * x.b)

\* The sign of a + b*sqrt(2): -1, 0 or 1.
Sign(x) ==
    IF x.a = 0 /\ x.b = 0 THEN 0
    ELSE IF x.a >= 0 /\ x.b >= 0 THEN 1
    ELSE IF x.a <= 0 /\ x.b <= 0 THEN -1
    ELSE IF x.a > 0 THEN (IF x.a * x.a > 2 * x.b * x.b THEN 1 ELSE -1)
    ELSE (IF 2 * x.b * x.b > x.a * x.a THEN 1 ELSE -1)

Less(x, y) == Sign(Sub(x, y)) < 0
LessEq(x, y) == Sign(Sub(x, y)) <= 0

\* x < y and min(x, y) where either may be +inf.
IsInf(x) == x = Inf
MinNum(x, y) ==
    IF IsInf(y) THEN x
    ELSE IF IsInf(x) THEN y
    ELSE IF Less(y, x) THEN y ELSE x

\* sqrt(n) for the n whose root is an integer or an integer times sqrt(2).
HasSqrt(n) == \E r \in 0..n : r * r = n \/ 2 * r * r = n
Sqrt(n) ==
    IF \E r \in 0..n : r * r = n
    THEN Num(CHOOSE r \in 0..n : r * r = n, 0)
    ELSE Num(0, CHOOSE r \in 0..n : 2 * r * r = n)

----------------------------------------------------------------------------
(* Point, World and PossibleSolution.                                      *)

Pt(x, y) == [x |-> x, y |-> y]

\* The value of drawn when no point has been drawn.
NoPoint == Pt(-1, -1)

\* World.__init__ has returned: its locals are gone.
WorldIsBuilt ==
    /\ points_count = Len(world)
    /\ points_set = {}
    /\ drawn = NoPoint

\* Point.distance_to
distance_to(p, q) ==
    LET deltaX == p.x - q.x
        deltaY == p.y - q.y
    IN  Sqrt(deltaX * deltaX + deltaY * deltaY)

\* A path holds the indexes 0 .. N-1 of the points; world.points[i] is the
\* (i+1)-th element of the sequence.
PointAt(points, i) == points[i + 1]

\* PossibleSolution.cost: the sum over i, p1_index in enumerate(path[:-1]) of
\* the distance from points[p1_index] to points[path[i + 1]].
RECURSIVE CostFrom(_, _, _)
CostFrom(path, points, i) ==
    IF i >= Len(path) THEN Zero
    ELSE Add(distance_to(PointAt(points, path[i]), PointAt(points, path[i + 1])),
             CostFrom(path, points, i + 1))

\* A variant of cost that closes the tour: it adds the way back from the last
\* point to the first.
cost_closed(path, points) ==
    IF Len(path) < 2 THEN CostFrom(path, points, 1)
    ELSE Add(CostFrom(path, points, 1),
             distance_to(PointAt(points, path[Len(path)]), PointAt(points, path[1])))

cost(path, points) == CostFrom(path, points, 1)

\* EvolutionMachine.__fitness: sqrt(2) * len(world.points) - s.cost(world)
fitness(path, points) == Sub(Num(0, Len(points)), cost(path, points))

----------------------------------------------------------------------------
(* Permutations and list.sort.                                             *)

Range(s) == {s[i] : i \in 1..Len(s)}

IsPermutation(path, n) ==
    /\ Len(path) = n
    /\ Range(path) = 0..(n - 1)

\* Every path of length n over 0 .. n-1 without a repeated index.
AllPaths(n) ==
    {p \in [1..n -> 0..(n - 1)] : \A i, j \in 1..n : p[i] = p[j] => i = j}

\* math.factorial
RECURSIVE factorial(_)
factorial(n) == IF n <= 1 THEN 1 ELSE n * factorial(n - 1)

\* The path of rank r (from 0) among the arrangements of items in
\* lexicographic order; items is in ascending order.
RECURSIVE Unrank(_, _)
Unrank(items, r) ==
    IF items = <<>> THEN <<>>
    ELSE LET f == factorial(Len(items) - 1)
             k == (r \div f) + 1
         IN  <<items[k]>> \o Unrank(SubSeq(items, 1, k - 1)
                                        \o SubSeq(items, k + 1, Len(items)),
                                    r % f)

PathOfRank(n, r) == Unrank([i \in 1..n |-> i - 1], r)

\* list.sort(key=...) is stable and ascending: an item goes behind every item
\* whose key is not greater than its own.  Items are records [key, val].
InsertByKey(sorted, item) ==
    LET k == Cardinality({i \in 1..Len(sorted) : LessEq(sorted[i].key, item.key)})
    IN  SubSeq(sorted, 1, k) \o <<item>> \o SubSeq(sorted, k + 1, Len(sorted))

RECURSIVE SortKeyed(_)
SortKeyed(items) ==
    IF items = <<>> THEN <<>>
    ELSE InsertByKey(SortKeyed(SubSeq(items, 1, Len(items) - 1)), items[Len(items)])

Values(items) == [i \in 1..Len(items) |-> items[i].val]

\* A variant of SortByFitness whose key is the cost.
SortByCost(paths, points) ==
    Values(SortKeyed([i \in 1..Len(paths) |->
                        [key |-> cost(paths[i], points), val |-> paths[i]]]))

\* self.population.sort(key=lambda s: self.__fitness(s))
SortByFitness(paths, points) ==
    Values(SortKeyed([i \in 1..Len(paths) |->
                        [key |-> fitness(paths[i], points), val |-> paths[i]]]))

\* A variant of sort_population that sorts by fitness, as line 99 does.
sort_population_by_fitness(paths, points) == SortByFitness(paths, points)

\* EvolutionMachine.__sort_population
sort_population(paths, points) ==
    Values(SortKeyed([i \in 1..Len(paths) |->
                        [key |-> cost(paths[i], points), val |-> paths[i]]]))

----------------------------------------------------------------------------
(* The random source.                                                      *)

\* The k-th draw after position pos: a numerator over RandomGrid.
Draw(tp, pos, k) == tp[((pos + k) % Len(tp)) + 1]

\* random.randint(a, b) from the uniform draw u / RandomGrid.
randint(a, b, u) == a + ((u * (b - a + 1)) \div RandomGrid)

----------------------------------------------------------------------------
(* EvolutionMachine.__selection                                            *)

\* A variant of SelectionCount that rounds the half up to the next even
\* number, so that a population of one still selects a pair.
SelectionCountCeil(size) ==
    LET half == (size * SELECTION_FRACTION_NUM + SELECTION_FRACTION_DEN - 1)
                    \div SELECTION_FRACTION_DEN
    IN  IF half % 2 = 1 THEN half + 1 ELSE half

\* A variant of SelectionCount without the step of lines 96-97.
SelectionCountTruncated(size) ==
    (size * SELECTION_FRACTION_NUM) \div SELECTION_FRACTION_DEN

\* int(population_size * SELECTION_FRACTION), made even by adding one.
SelectionCount(size) ==
    LET selection_count == (size * SELECTION_FRACTION_NUM) \div SELECTION_FRACTION_DEN
    IN  IF selection_count % 2 = 1 THEN selection_count + 1 ELSE selection_count

RECURSIVE SumTo(_, _)
SumTo(nums, i) == IF i = 0 THEN Zero ELSE Add(SumTo(nums, i - 1), nums[i])

\* p > probabilites[i], where p = u / RandomGrid and probabilites[i] is the
\* running sum of fitnesses[j] / total_fitness: cumulative / total.
DrawExceeds(u, cumulative, total) ==
    LET d == Sign(Sub(Times(u, total), Times(RandomGrid, cumulative)))
    IN  IF Sign(total) > 0 THEN d > 0 ELSE d < 0

\* The loop of lines 112-114.  The result is the index of line 115, or -1 when
\* probabilites[selected_index] is read past the end of the list.
RECURSIVE ScanIndex(_, _, _, _, _)
ScanIndex(u, cumulative, total, selection_count, selected_index) ==
    IF selected_index >= Len(cumulative) THEN -1
    ELSE IF /\ DrawExceeds(u, cumulative[selected_index + 1], total)
            /\ selected_index < selection_count - 2
         THEN ScanIndex(u, cumulative, total, selection_count, selected_index + 1)
         ELSE selected_index

\* A variant of Pairs that pairs every drawn individual with the next one.
PairsAdjacent(selected, selection_count) ==
    [i \in 1..(selection_count \div 2) |-> <<selected[2 * i - 1], selected[2 * i]>>]

\* Line 116: zip(selected[:selection_count//2], selected[selection_count//2:])
Pairs(selected, selection_count) ==
    LET first_half == SubSeq(selected, 1, selection_count \div 2)
        second_half == SubSeq(selected, (selection_count \div 2) + 1, Len(selected))
        shorter == IF Len(first_half) < Len(second_half)
                   THEN Len(first_half) ELSE Len(second_half)
    IN  [i \in 1..shorter |-> <<first_half[i], second_half[i]>>]

\* The whole of __selection.  status is "ok" or the exception raised; paths is
\* self.population after the sort of line 99; probabilites holds the
\* cumulative fitness sums, to be read over total_fitness; draws holds p and
\* selected_index of every draw; used counts the random values consumed.
selection(paths, size, points, tp, pos) ==
    LET selection_count == SelectionCount(size)
        sorted == SortByFitness(paths, points)
        fitnesses == [i \in 1..Len(sorted) |-> fitness(sorted[i], points)]
        total_fitness == SumTo(fitnesses, Len(fitnesses))
        probabilites == [i \in 1..Len(fitnesses) |-> SumTo(fitnesses, i)]
        draws == [k \in 1..selection_count |->
                    LET u == Draw(tp, pos, k - 1)
                    IN  [p |-> u,
                         selected_index |->
                            ScanIndex(u, probabilites, total_fitness, selection_count, 0)]]
        selected == [k \in 1..selection_count |-> sorted[draws[k].selected_index + 1]]
        Result(status, probs, drs, sel, prs, n) ==
            [status |-> status, selection_count |-> selection_count,
             paths |-> sorted, fitnesses |-> fitnesses,
             total_fitness |-> total_fitness, probabilites |-> probs,
             draws |-> drs, selected |-> sel, pairs |-> prs, used |-> n]
    IN  IF size > Len(fitnesses)
        THEN Result("IndexError", <<>>, <<>>, <<>>, <<>>, 0)
        ELSE IF size > 0 /\ Sign(total_fitness) = 0
        THEN Result("ZeroDivisionError", <<>>, <<>>, <<>>, <<>>, 0)
        ELSE IF \E k \in 1..selection_count :
                    \/ draws[k].selected_index < 0
                    \/ draws[k].selected_index >= Len(sorted)
        THEN Result("IndexError", SubSeq(probabilites, 1, size), <<>>, <<>>, <<>>, 0)
        ELSE Result("ok", SubSeq(probabilites, 1, size), draws, selected,
                    Pairs(selected, selection_count),
                    selection_count)

----------------------------------------------------------------------------
(* EvolutionMachine.__crossover                                            *)

IsDuplicateFree(path) == Cardinality(Range(path)) = Len(path)

\* The loops of lines 127-131 and 132-136: child grows by the chromosomes of
\* donor, read cyclically from index idx, that it does not hold yet.  After
\* specimen_len steps every chromosome of donor has been offered; a child
\* still short then never grows again, and the loop does not end.  steps
\* counts the steps left before that is known; the child is returned short.
\* A variant of CrossoverFill without the test of line 129 (and 134): every
\* chromosome of donor is appended, whether child holds it or not.
RECURSIVE CrossoverFillNoSkip(_, _, _, _, _)
CrossoverFillNoSkip(child, donor, idx, specimen_len, steps) ==
    IF Len(child) >= specimen_len \/ steps = 0 THEN child
    ELSE CrossoverFillNoSkip(Append(child, donor[(idx % specimen_len) + 1]),
                             donor, idx + 1, specimen_len, steps - 1)

RECURSIVE CrossoverFill(_, _, _, _, _)
CrossoverFill(child, donor, idx, specimen_len, steps) ==
    IF Len(child) >= specimen_len \/ steps = 0 THEN child
    ELSE LET current_chromosome == donor[(idx % specimen_len) + 1]
         IN  CrossoverFill(IF current_chromosome \notin Range(child)
                               THEN Append(child, current_chromosome)
                               ELSE child,
                           donor, idx + 1, specimen_len, steps - 1)

\* A variant of crossover whose loops read the donor from index 0.
crossover_from_start(s1, s2, i, specimen_len) ==
    LET first == CrossoverFill(SubSeq(s1, 1, i), s2, 0, specimen_len, specimen_len)
        second == CrossoverFill(SubSeq(s2, 1, i), s1, 0, specimen_len, specimen_len)
    IN  [status |-> IF Len(first) < specimen_len \/ Len(second) < specimen_len
                        THEN "hang"
                    ELSE IF ~IsDuplicateFree(first) \/ ~IsDuplicateFree(second)
                        THEN "AssertionError"
                    ELSE "ok",
         first |-> first,
         second |-> second]

\* __crossover with i the value of randint(1, len(self.world.points) - 1).
\* status is "ok", "AssertionError" (lines 137-138) or "hang" (a loop that
\* does not end).
crossover(s1, s2, i, specimen_len) ==
    LET first == CrossoverFill(SubSeq(s1, 1, i), s2, i, specimen_len, specimen_len)
        second == CrossoverFill(SubSeq(s2, 1, i), s1, i, specimen_len, specimen_len)
    IN  [status |-> IF Len(first) < specimen_len \/ Len(second) < specimen_len
                        THEN "hang"
                    ELSE IF ~IsDuplicateFree(first) \/ ~IsDuplicateFree(second)
                        THEN "AssertionError"
                    ELSE "ok",
         first |-> first,
         second |-> second]

----------------------------------------------------------------------------
(* EvolutionMachine.__mutation                                             *)

Reversed(s) == [i \in 1..Len(s) |-> s[Len(s) + 1 - i]]

\* A variant of Invert that reverses everything from the start index on.
InvertTail(chromosomes, subpath_start_index, subpath_end_index) ==
    SubSeq(chromosomes, 1, subpath_start_index)
        \o Reversed(SubSeq(chromosomes, subpath_start_index + 1, Len(chromosomes)))

\* Lines 152-153: chromosomes[:start] + reversed(chromosomes[start:end+1])
\* + chromosomes[end+1:], with start and end counted from 0.
Invert(chromosomes, subpath_start_index, subpath_end_index) ==
    SubSeq(chromosomes, 1, subpath_start_index)
        \o Reversed(SubSeq(chromosomes, subpath_start_index + 1, subpath_end_index + 1))
        \o SubSeq(chromosomes, subpath_end_index + 2, Len(chromosomes))

\* random() > MUTATION_CHANCE for the draw u / RandomGrid.
SkipsMutation(u) == u * MUTATION_CHANCE_DEN > MUTATION_CHANCE_NUM * RandomGrid

\* The loop of lines 144-156 from specimen i on.  log holds, for every
\* specimen seen, whether it was mutated and between which indexes.
RECURSIVE MutateFrom(_, _, _, _, _, _)
MutateFrom(new_generation, log, i, tp, pos, used) ==
    IF i > Len(new_generation)
    THEN [status |-> "ok", new_generation |-> new_generation, log |-> log, used |-> used]
    ELSE
      LET specimen == new_generation[i]
          size == Len(specimen)
          subpath_start_index == randint(0, size - 2, Draw(tp, pos, used + 1))
          subpath_end_index ==
              randint(subpath_start_index + 1, size - 1, Draw(tp, pos, used + 2))
          new_chromosomes == Invert(specimen, subpath_start_index, subpath_end_index)
      IN  IF SkipsMutation(Draw(tp, pos, used))
          THEN MutateFrom(new_generation,
                          Append(log, [mutated |-> FALSE, start |-> 0, end |-> 0]),
                          i + 1, tp, pos, used + 1)
          ELSE IF size < 2
          THEN [status |-> "ValueError", new_generation |-> new_generation,
                log |-> log, used |-> used + 1]
          ELSE IF Len(new_chromosomes) # size \/ ~IsDuplicateFree(new_chromosomes)
          THEN [status |-> "AssertionError", new_generation |-> new_generation,
                log |-> log, used |-> used + 3]
          ELSE MutateFrom([new_generation EXCEPT ![i] = new_chromosomes],
                          Append(log, [mutated |-> TRUE,
                                       start |-> subpath_start_index,
                                       end |-> subpath_end_index]),
                          i + 1, tp, pos, used + 3)

mutation(new_generation, tp, pos) == MutateFrom(new_generation, <<>>, 1, tp, pos, 0)

----------------------------------------------------------------------------
(* EvolutionMachine.__merge_generations                                    *)

\* A variant of merge_generations without the sort of line 161.
merge_generations_unsorted(paths, children, points, size) ==
    SubSeq(paths \o children, 1,
           IF size < Len(paths) + Len(children) THEN size ELSE Len(paths) + Len(children))

\* A variant of merge_generations that keeps the end of the sorted list.
merge_generations_tail(paths, children, points, size) ==
    LET merged == sort_population(paths \o children, points)
    IN  SubSeq(merged, IF size < Len(merged) THEN Len(merged) - size + 1 ELSE 1,
               Len(merged))

\* population.extend(children); sort by cost; population[:population_size]
merge_generations(paths, children, points, size) ==
    LET merged == sort_population(paths \o children, points)
    IN  SubSeq(merged, 1, IF size < Len(merged) THEN size ELSE Len(merged))

----------------------------------------------------------------------------
(* EvolutionMachine.__init__ and __next__                                  *)

\* A variant of PopulationSize whose threshold is one lower.
PopulationSizeFrom4(size) == IF size >= 4 THEN size * size ELSE factorial(size)

\* Line 65.
PopulationSize(size) == IF size > 4 THEN size * size ELSE factorial(size)

\* The locals of one __next__ call.  Before the first call: NoCall.
NoCall ==
    [status |-> "none", selection_count |-> 0, sorted |-> <<>>,
     total_fitness |-> Zero, probabilites |-> <<>>, draws |-> <<>>,
     selected |-> <<>>, pairs |-> <<>>, cuts |-> <<>>, children |-> <<>>,
     log |-> <<>>, new_generation |-> <<>>, population |-> <<>>, used |-> 0]

\* The record of a __next__ call that went through selection sel.
CallResult(sel, status, cuts, children, log, new_generation, paths, used) ==
    [status |-> status, selection_count |-> sel.selection_count,
     sorted |-> sel.paths, total_fitness |-> sel.total_fitness,
     probabilites |-> sel.probabilites, draws |-> sel.draws,
     selected |-> sel.selected, pairs |-> sel.pairs, cuts |-> cuts,
     children |-> children, log |-> log, new_generation |-> new_generation,
     population |-> paths, used |-> used]

\* Lines 79-81: mutation and merge of the children, and population[0].
MutateAndMerge(sel, cuts, children, mut, size, points) ==
    LET merged == merge_generations(sel.paths, mut.new_generation, points, size)
        used == sel.used + Len(cuts) + mut.used
    IN  IF mut.status # "ok"
        THEN CallResult(sel, mut.status, cuts, children, mut.log,
                        mut.new_generation, sel.paths, used)
        ELSE CallResult(sel, IF merged = <<>> THEN "IndexError" ELSE "ok",
                        cuts, children, mut.log, mut.new_generation, merged, used)

\* Lines 77-78: new_generation.extend(crossover) for every pair; crossed[k]
\* is the crossover of pair k.  The children are kept up to the first
\* crossover that fails.
ExtendAndMutate(sel, cuts, crossed, size, points, tp, pos) ==
    LET npairs == Len(sel.pairs)
        bad == {k \in 1..npairs : crossed[k].status # "ok"}
        upto == IF bad = {} THEN npairs
                ELSE CHOOSE k \in bad : \A j \in bad : k <= j
        children == [j \in 1..(2 * upto) |->
                        IF j % 2 = 1 THEN crossed[(j + 1) \div 2].first
                                     ELSE crossed[j \div 2].second]
    IN  IF bad # {}
        THEN CallResult(sel, crossed[upto].status, SubSeq(cuts, 1, upto), children,
                        <<>>, children, sel.paths, sel.used + upto)
        ELSE MutateAndMerge(sel, cuts, children,
                            mutation(children, tp, pos + sel.used + npairs),
                            size, points)

\* Line 122 for every pair: i = randint(1, len(self.world.points) - 1).
CrossoverCuts(sel, specimen_len, tp, pos) ==
    [k \in 1..Len(sel.pairs) |->
        randint(1, specimen_len - 1, Draw(tp, pos, sel.used + k - 1))]

CrossoverAll(sel, cuts, size, points, tp, pos) ==
    ExtendAndMutate(sel, cuts,
                    [k \in 1..Len(sel.pairs) |->
                        crossover(sel.pairs[k][1], sel.pairs[k][2], cuts[k], Len(points))],
                    size, points, tp, pos)

AfterSelection(sel, size, points, tp, pos) ==
    IF sel.status # "ok"
    THEN CallResult(sel, sel.status, <<>>, <<>>, <<>>, <<>>, sel.paths, 0)
    ELSE IF Len(sel.pairs) > 0 /\ Len(points) - 1 < 1
    THEN CallResult(sel, "ValueError", <<>>, <<>>, <<>>, <<>>, sel.paths, sel.used + 1)
    ELSE CrossoverAll(sel, CrossoverCuts(sel, Len(points), tp, pos), size, points, tp, pos)

\* __next__: selection, a crossover for every pair, mutation, merge.
NextCall(paths, size, points, tp, pos) ==
    AfterSelection(selection(paths, size, points, tp, pos), size, points, tp, pos)

----------------------------------------------------------------------------
(* The worlds and the initial populations of the model.                    *)

Worlds ==
    { << Pt(0, 0) >>,
      << Pt(0, 0), Pt(1, 0) >>,
      << Pt(0, 0), Pt(2, 2) >>,
      << Pt(0, 0), Pt(3, 4) >>,
      << Pt(0, 0), Pt(1, 0), Pt(3, 0) >>,
      << Pt(0, 0), Pt(1, 0), Pt(0, 1) >>,
      << Pt(0, 0), Pt(1, 0), Pt(1, 1), Pt(0, 1) >>,
      << Pt(0, 0), Pt(2, 0), Pt(0, 2), Pt(2, 2), Pt(1, 1) >> }

\* The list that lines 68-73 leave: population_size distinct paths, in the
\* order of the set's iteration.  The model takes the paths of ranks
\* offset, offset + stride, ... (mod n!); the strides used below are coprime
\* to n!, so the paths are distinct.
InitialPopulation(n, offset, stride) ==
    [i \in 1..PopulationSize(n) |->
        PathOfRank(n, (offset + stride * (i - 1)) % factorial(n))]

InitialPopulations(n) ==
    { InitialPopulation(n, 0, 7),
      InitialPopulation(n, factorial(n) - 1, factorial(n) - 1) }

\* The random sources: the tapes of length RandomGrid that start at any
\* grid value and go on by any fixed step (mod RandomGrid).
Tapes ==
    { [i \in 1..RandomGrid |-> (start + step * (i - 1)) % RandomGrid] :
        start \in 0..(RandomGrid - 1), step \in 0..(RandomGrid - 1) }

----------------------------------------------------------------------------
(* The run: the generator __iter__ and the driver loop that consumes it.   *)
(* pc is "iter" when the generator is at its loop test, "yielded" when the *)
(* driver holds a yielded solution, "done" after the final print and       *)
(* "failed" after an exception.                                            *)

\* A variant of KeepsGoing that stops one count earlier.
KeepsGoingShort(count) == count < STOP_CONDITION_SAME_COUNT - 2

\* Line 86: the test of the generator's loop.
KeepsGoing(count) == count < STOP_CONDITION_SAME_COUNT - 1

\* A variant of NextSameCount that never counts.
NextSameCountReset(c, previous, count) == 0

\* Line 89: same_count = 0 if cost != last else same_count + 1
NextSameCount(c, previous, count) == IF c # previous THEN 0 ELSE count + 1

\* A variant of BestOf that returns the last path of the population.
BestOfLast(paths) == paths[Len(paths)]

\* Line 81: return self.population[0]
BestOf(paths) == paths[1]

Init ==
    /\ world \in Worlds
    /\ population_size = PopulationSize(Len(world))
    /\ population \in InitialPopulations(Len(world))
    /\ population_set = {}
    /\ WorldIsBuilt
    /\ tape \in Tapes
    /\ rpos = 0
    /\ pc = "iter"
    /\ same_count = 1
    /\ last = Inf
    /\ next_solution = <<>>
    /\ yielded = <<>>
    /\ iteration = 1
    /\ last_cost = Inf
    /\ printed = <<>>
    /\ error = ""
    /\ gen = NoCall

\* Lines 86-91: one turn of the generator's loop, up to the yield.
Advance ==
    /\ pc = "iter"
    /\ KeepsGoing(same_count)
    /\ \E call \in {NextCall(population, population_size, world, tape, rpos)} :
        /\ call.status = "ok"
        /\ \E c \in {cost(BestOf(call.population), world)} :
           /\ gen' = call
           /\ population' = call.population
           /\ rpos' = (rpos + call.used) % Len(tape)
           /\ next_solution' = BestOf(call.population)
           /\ same_count' = NextSameCount(c, last, same_count)
           /\ last' = MinNum(c, last)
           /\ yielded' = Append(yielded, c)
           /\ pc' = "yielded"
    /\ UNCHANGED <<world_locals, world, population_size, population_set, tape, iteration, last_cost, printed, error>>

\* The same turn when next(self) raises: the exception ends the run.
AdvanceRaises ==
    /\ pc = "iter"
    /\ KeepsGoing(same_count)
    /\ \E call \in {NextCall(population, population_size, world, tape, rpos)} :
           /\ call.status # "ok"
           /\ gen' = call
           /\ population' = call.population
           /\ rpos' = (rpos + call.used) % Len(tape)
           /\ error' = call.status
           /\ pc' = "failed"
    /\ UNCHANGED <<world_locals, world, population_size, population_set, tape, same_count, last, next_solution,
                   yielded, iteration, last_cost, printed>>

\* Lines 184-193: the body of the driver's loop for one yielded solution.
Consume ==
    /\ pc = "yielded"
    /\ last_cost' = cost(next_solution, world)
    /\ iteration' = iteration + 1
    /\ pc' = "iter"
    /\ UNCHANGED <<world_locals, world, population_size, population, population_set, tape, rpos, same_count, last,
                   next_solution, yielded, printed, error, gen>>

\* The loop test of line 86 fails, the generator ends, and line 195 prints.
Stop ==
    /\ pc = "iter"
    /\ ~KeepsGoing(same_count)
    /\ printed' = <<iteration, last_cost>>
    /\ pc' = "done"
    /\ UNCHANGED <<world_locals, world, population_size, population, population_set, tape, rpos, same_count, last,
                   next_solution, yielded, iteration, last_cost, error, gen>>

Next == Advance \/ AdvanceRaises \/ Consume \/ Stop

Spec == Init /\ [][Next]_vars

----------------------------------------------------------------------------
(* Properties of the engine, checked under Spec.                           *)

\* How many times path x occurs in the sequence paths.
Count(paths, x) == Cardinality({i \in 1..Len(paths) : paths[i] = x})

\* The individuals the last merge chose from: the population that selection
\* left, followed by the children after mutation.
Merged == gen.sorted \o gen.new_generation

Called == gen.status = "ok"

\* C1: in every reachable state every tour of the population, and every
\* child that crossover or mutation produced in the last generation, has
\* length N and holds each index 0 .. N-1 exactly once.
C1_ToursArePermutations ==
    \A t \in Range(population) \cup Range(gen.children) \cup Range(gen.new_generation) :
        IsPermutation(t, Len(world))

\* A generation in which two different parents were crossed and a child was
\* mutated.
C1_Witness ==
    /\ Called
    /\ Len(yielded) >= 2
    /\ \E k \in 1..Len(gen.pairs) : gen.pairs[k][1] # gen.pairs[k][2]
    /\ \E k \in 1..Len(gen.log) : gen.log[k].mutated
    /\ C1_ToursArePermutations

\* C2: after the merge the population holds no more than population_size
\* tours, all taken from the old population and the children, as many as
\* there is room for, and no discarded individual costs strictly less than a
\* kept one.
C2_MergeKeepsLowest ==
    Called =>
        /\ Len(population) <= population_size
        /\ Len(population) =
              (IF population_size < Len(Merged) THEN population_size ELSE Len(Merged))
        /\ \A x \in Range(population) : Count(population, x) <= Count(Merged, x)
        /\ \A d \in Range(Merged) :
              Count(population, d) < Count(Merged, d) =>
                  \A k \in Range(population) :
                      ~Less(cost(d, world), cost(k, world))

\* A merge that kept a child which the old population did not hold, and
\* discarded an individual of strictly higher cost than one it kept.
C2_Witness ==
    /\ Called
    /\ \E x \in Range(gen.new_generation) :
          x \in Range(population) /\ x \notin Range(gen.sorted)
    /\ \E d \in Range(Merged) :
          /\ Count(population, d) < Count(Merged, d)
          /\ \E k \in Range(population) : Less(cost(k, world), cost(d, world))

\* C3: the tour that __next__ returns is the first of the population after
\* the merge and costs no more than any member of the old population or any
\* new child.
C3_ReturnsMinimum ==
    pc = "yielded" =>
        /\ next_solution \in Range(population)
        /\ \A x \in Range(Merged) \cup Range(population) :
              LessEq(cost(next_solution, world), cost(x, world))

\* A returned tour that is a child of this generation and costs strictly
\* less than some member of the population.
C3_Witness ==
    /\ pc = "yielded"
    /\ next_solution \in Range(gen.new_generation)
    /\ \E x \in Range(Merged) : Less(cost(next_solution, world), cost(x, world))

\* C4: the costs of the tours returned by successive __next__ calls never
\* increase.
C4_BestNeverIncreases ==
    \A i \in 1..(Len(yielded) - 1) : LessEq(yielded[i + 1], yielded[i])

\* A run in which the best cost stayed equal once and decreased once.
C4_Witness ==
    /\ \E i \in 1..(Len(yielded) - 1) : Less(yielded[i + 1], yielded[i])
    /\ \E i \in 1..(Len(yielded) - 1) : yielded[i + 1] = yielded[i]

\* The number of equal costs at the end of the yielded sequence.
RECURSIVE TailRun(_)
TailRun(costs) ==
    IF Len(costs) <= 1 THEN Len(costs)
    ELSE IF costs[Len(costs)] = costs[Len(costs) - 1]
         THEN 1 + TailRun(SubSeq(costs, 1, Len(costs) - 1))
         ELSE 1

AllSame(costs) == \A i, j \in 1..Len(costs) : costs[i] = costs[j]

\* C5 as stated: the sequence stops once the counter reaches
\* STOP_CONDITION_SAME_COUNT - 2 = 14, and a best cost that is the same from
\* the first generation on gives exactly 15 generations.
C5_StopsAtFourteen ==
    pc = "done" =>
        /\ same_count = STOP_CONDITION_SAME_COUNT - 2
        /\ AllSame(yielded) => Len(yielded) = STOP_CONDITION_SAME_COUNT - 1

\* C5 amended: the counter is 0 after a generation whose best cost differs
\* from the one before and one more after a generation whose best cost is
\* the same, so it is the number of equal costs at the end of the sequence
\* less one; the sequence stops once the counter reaches
\* STOP_CONDITION_SAME_COUNT - 1 = 15, never before; and a best cost that is
\* the same from the first generation on gives exactly 16 generations.
C5_StopsAtFifteen ==
    /\ Len(yielded) >= 1 => same_count = TailRun(yielded) - 1
    /\ same_count <= STOP_CONDITION_SAME_COUNT - 1
    /\ pc = "done" => same_count = STOP_CONDITION_SAME_COUNT - 1
    /\ (pc = "done" /\ AllSame(yielded)) => Len(yielded) = STOP_CONDITION_SAME_COUNT

\* A finished run of 16 generations, all of the same best cost.
C5_Witness ==
    /\ pc = "done"
    /\ AllSame(yielded)
    /\ Len(yielded) = STOP_CONDITION_SAME_COUNT
    /\ same_count = STOP_CONDITION_SAME_COUNT - 1

\* The least cost over every permutation of the world's points.
IsOptimal(c, points) ==
    /\ \E t \in AllPaths(Len(points)) : cost(t, points) = c
    /\ \A t \in AllPaths(Len(points)) : LessEq(c, cost(t, points))

\* C8: in a world of at most 4 points every tour the engine returns, from
\* the first generation on, has the least cost of all N! permutations.
C8_SmallWorldsOptimal ==
    Len(world) <= 4 =>
        /\ \A i \in 1..Len(yielded) : IsOptimal(yielded[i], world)
        /\ pc = "yielded" => IsOptimal(cost(next_solution, world), world)

\* The unit square: the second generation returns a tour of cost 3.
C8_Witness ==
    /\ world = << Pt(0, 0), Pt(1, 0), Pt(1, 1), Pt(0, 1) >>
    /\ pc = "yielded"
    /\ Len(yielded) >= 2
    /\ cost(next_solution, world) = Num(3, 0)

\* C9 as stated: with one point the engine reports cost 0 and the sequence
\* stops at once, and no generation draws an individual, crosses or mutates.
C9_StopsAtOnce ==
    Len(world) = 1 =>
        /\ Len(yielded) <= 1
        /\ \A i \in 1..Len(yielded) : yielded[i] = Zero
        /\ gen.draws = <<>> /\ gen.cuts = <<>> /\ gen.log = <<>>
        /\ error = ""

\* C9 amended: with one point every tour the engine yields is the
\* single-point tour of cost 0; the sequence does not stop after the first
\* but after exactly 16 generations; every generation runs selection, whose
\* total fitness sqrt(2) is not zero, but draws no individual, crosses no
\* pair and mutates no child; and no exception is raised.
C9_SinglePoint ==
    Len(world) = 1 =>
        /\ \A i \in 1..Len(yielded) : yielded[i] = Zero
        /\ next_solution \in {<<>>, <<0>>}
        /\ Len(yielded) <= STOP_CONDITION_SAME_COUNT
        /\ pc = "done" => Len(yielded) = STOP_CONDITION_SAME_COUNT
        /\ (pc = "iter" /\ Len(yielded) = STOP_CONDITION_SAME_COUNT) =>
              ~KeepsGoing(same_count)
        /\ gen.status # "none" =>
              /\ gen.status = "ok"
              /\ gen.total_fitness = Num(0, 1)
              /\ gen.draws = <<>> /\ gen.selected = <<>> /\ gen.pairs = <<>>
              /\ gen.cuts = <<>> /\ gen.children = <<>> /\ gen.log = <<>>
        /\ error = "" /\ pc # "failed"

\* The run of the one-point world, finished after 16 generations.
C9_Witness ==
    /\ Len(world) = 1
    /\ pc = "done"
    /\ Len(yielded) = STOP_CONDITION_SAME_COUNT
    /\ next_solution = <<0>>
    /\ gen.status = "ok"

\* The index that the cumulative distribution gives for the draw
\* u / RandomGrid: the least index whose cumulative probability is not less
\* than the draw, and the last index of the population when there is none.
RouletteIndex(u, probabilites, total) ==
    LET meets == {i \in 0..(Len(probabilites) - 1) :
                    ~DrawExceeds(u, probabilites[i + 1], total)}
    IN  IF meets = {} THEN Len(probabilites) - 1
        ELSE CHOOSE i \in meets : \A j \in meets : i <= j

\* C10: every draw of selection returns the least index whose cumulative
\* probability is at least p, clamped only at population_size - 1.
C10_DrawsFollowDistribution ==
    Called =>
        \A k \in 1..Len(gen.draws) :
            gen.draws[k].selected_index =
                RouletteIndex(gen.draws[k].p, gen.probabilites, gen.total_fitness)

----------------------------------------------------------------------------
(* __crossover on its own: SpecCrossover applies it to every pair of       *)
(* parents and every cut of the worlds of 2 .. MaxCrossoverPoints points.  *)

\* The world of n points on a line.
LineWorld(n) == [i \in 1..n |-> Pt(i - 1, 0)]

InitCrossover ==
    /\ world \in {LineWorld(n) : n \in 2..MaxCrossoverPoints}
    /\ population_size = PopulationSize(Len(world))
    /\ population = <<>>
    /\ population_set = {}
    /\ WorldIsBuilt
    /\ tape = <<0>>
    /\ rpos = 0
    /\ pc = "crossover"
    /\ same_count = 1
    /\ last = Inf
    /\ next_solution = <<>>
    /\ yielded = <<>>
    /\ iteration = 1
    /\ last_cost = Inf
    /\ printed = <<>>
    /\ error = ""
    /\ \E s1, s2 \in AllPaths(Len(world)) :
          gen = [NoCall EXCEPT !.pairs = << <<s1, s2>> >>]

\* One call of __crossover; i is the value of randint(1, N - 1).
Cross ==
    /\ pc = "crossover"
    /\ \E i \in 1..(Len(world) - 1) :
        \E r \in {crossover(gen.pairs[1][1], gen.pairs[1][2], i, Len(world))} :
          gen' = [gen EXCEPT !.status = r.status, !.cuts = <<i>>,
                             !.children = <<r.first, r.second>>]
    /\ pc' = "crossed"
    /\ UNCHANGED <<world_locals, world, population_size, population, population_set, tape, rpos,
                   same_count, last, next_solution, yielded, iteration, last_cost,
                   printed, error>>

SpecCrossover == InitCrossover /\ [][Cross]_vars

\* The path p read cyclically from offset c (counted from 0).
Rotated(p, c) == [i \in 1..Len(p) |-> p[((c + i - 1) % Len(p)) + 1]]

\* The first c genes of p1, then the genes of p2 that are not among them, in
\* the cyclic order of p2 from offset c.
OrderedChild(p1, p2, c) ==
    LET head == SubSeq(p1, 1, c)
        IsNew(x) == x \notin Range(head)
    IN  head \o SelectSeq(Rotated(p2, c), IsNew)

\* C6: for valid parents p1, p2 and a cut c in 1 .. N-1, crossover ends
\* and returns two valid permutations: the first c genes of p1 followed by
\* the missing genes in the cyclic order of p2 from offset c, and the same
\* with p1 and p2 exchanged.
C6_CrossoverChildren ==
    pc = "crossed" =>
        /\ gen.status = "ok"
        /\ Len(gen.children) = 2
        /\ \A k \in 1..2 : IsPermutation(gen.children[k], Len(world))
        /\ gen.children[1] = OrderedChild(gen.pairs[1][1], gen.pairs[1][2], gen.cuts[1])
        /\ gen.children[2] = OrderedChild(gen.pairs[1][2], gen.pairs[1][1], gen.cuts[1])

\* A crossover of two different parents of four points cut in the middle,
\* whose children are both new.
C6_Witness ==
    /\ pc = "crossed"
    /\ Len(world) = 4
    /\ gen.cuts = <<2>>
    /\ gen.pairs[1][1] # gen.pairs[1][2]
    /\ gen.children[1] \notin {gen.pairs[1][1], gen.pairs[1][2]}
    /\ gen.children[2] \notin {gen.pairs[1][1], gen.pairs[1][2]}
    /\ gen.status = "ok"

----------------------------------------------------------------------------
(* __init__ on its own: SpecInit runs the loop of lines 68-73 for the      *)
(* worlds of 0 .. MaxInitPoints points.                                    *)

\* Whether path a comes before path b in the lexicographic order.
LexLess(a, b) ==
    \E i \in 1..Len(a) :
        /\ a[i] < b[i]
        /\ \A j \in 1..(i - 1) : a[j] = b[j]

\* The paths of the set in lexicographic order, and in the reverse order.
Ascending(paths) ==
    [r \in 1..Cardinality(paths) |->
        CHOOSE p \in paths : Cardinality({q \in paths : LexLess(q, p)}) = r - 1]

Descending(paths) == Reversed(Ascending(paths))

\* The ranks of the k paths of lowest rank that the set does not hold.
RECURSIVE MissingRanks(_, _, _, _)
MissingRanks(paths, n, r, k) ==
    IF k = 0 \/ r >= factorial(n) THEN {}
    ELSE IF PathOfRank(n, r) \in paths THEN MissingRanks(paths, n, r + 1, k)
    ELSE {r} \cup MissingRanks(paths, n, r + 1, k - 1)

\* What shuffle(new_path) may leave in new_path.
Shuffled(paths, n) ==
    paths \cup {PathOfRank(n, r) : r \in MissingRanks(paths, n, 0, ShuffleFan)}

InitInit ==
    /\ world \in {LineWorld(n) : n \in 0..MaxInitPoints}
    /\ population_size = PopulationSize(Len(world))
    /\ population = <<>>
    /\ population_set = {}
    /\ WorldIsBuilt
    /\ tape = <<0>>
    /\ rpos = 0
    /\ pc = "init"
    /\ same_count = 1
    /\ last = Inf
    /\ next_solution = <<>>
    /\ yielded = <<>>
    /\ iteration = 1
    /\ last_cost = Inf
    /\ printed = <<>>
    /\ error = ""
    /\ gen = NoCall

\* Lines 69-72: one turn of the loop.
AddShuffled ==
    /\ pc = "init"
    /\ Cardinality(population_set) < population_size
    /\ \E new_path \in Shuffled(population_set, Len(world)) :
          population_set' = population_set \cup {new_path}
    /\ UNCHANGED <<world_locals, world, population_size, population, tape, rpos, pc, same_count,
                   last, next_solution, yielded, iteration, last_cost, printed,
                   error, gen>>

\* Line 73: the loop is over and the set becomes a list, in some order.
Freeze ==
    /\ pc = "init"
    /\ ~(Cardinality(population_set) < population_size)
    /\ population' \in {Ascending(population_set), Descending(population_set)}
    /\ population_set' = {}
    /\ pc' = "constructed"
    /\ UNCHANGED <<world_locals, world, population_size, tape, rpos, same_count, last,
                   next_solution, yielded, iteration, last_cost, printed, error, gen>>

SpecInit == InitInit /\ [][AddShuffled \/ Freeze]_vars

\* C7: at construction population_size is N*N when N > 4 and N! otherwise,
\* and the initial population holds exactly population_size pairwise
\* distinct permutations of 0 .. N-1; for N <= 4 it holds every permutation
\* exactly once.
C7_InitialPopulation ==
    pc = "constructed" =>
        LET n == Len(world)
        IN  /\ population_size =
                  (IF n > 4 THEN n * n ELSE Cardinality(AllPaths(n)))
            /\ Len(population) = population_size
            /\ \A i, j \in 1..Len(population) : population[i] = population[j] => i = j
            /\ \A i \in 1..Len(population) : IsPermutation(population[i], n)
            /\ n <= 4 => Range(population) = AllPaths(n)

\* A constructed population of 25 paths of five points.
C7_Witness ==
    /\ pc = "constructed"
    /\ Len(world) = 5
    /\ Len(population) = 25
    /\ population[1] # PathOfRank(5, 0)

----------------------------------------------------------------------------
(* Properties of selection, checked under Spec.                            *)

\* The population as line 99 left it in the last __next__ call, whether the
\* call went on to return or raised.
Selected == gen.status # "none"

\* C11 as stated: when selection computes the cumulative distribution, the
\* population is in ascending order of cost, a lowest-cost tour first.
C11_SortedByCost ==
    Selected =>
        \A i \in 1..(Len(gen.sorted) - 1) :
            LessEq(cost(gen.sorted[i], world), cost(gen.sorted[i + 1], world))

\* C11: when selection computes the cumulative distribution and makes its
\* draws, the population is in ascending order of fitness, which is
\* descending order of cost: index 0 holds a highest-cost tour and the costs
\* never increase along the indices.
C11_SortedByFitness ==
    Selected =>
        /\ \A i \in 1..(Len(gen.sorted) - 1) :
              /\ LessEq(fitness(gen.sorted[i], world), fitness(gen.sorted[i + 1], world))
              /\ LessEq(cost(gen.sorted[i + 1], world), cost(gen.sorted[i], world))
        /\ \A t \in Range(gen.sorted) :
              LessEq(cost(t, world), cost(gen.sorted[1], world))

\* A selection over a population of at least three different costs, in which
\* a tour was drawn.
C11_Witness ==
    /\ Called
    /\ Len(gen.selected) > 0
    /\ Cardinality({cost(t, world) : t \in Range(gen.sorted)}) >= 3
    /\ Less(cost(gen.sorted[Len(gen.sorted)], world), cost(gen.sorted[1], world))

\* C12 as stated: selection_count is even and is the smallest even integer
\* that is at least population_size / 2.
C12_SmallestEvenAboveHalf ==
    Selected =>
        /\ gen.selection_count % 2 = 0
        /\ 2 * gen.selection_count >= population_size
        /\ 2 * (gen.selection_count - 2) < population_size

\* C12: selection_count is even and is the smallest even integer that is at
\* least the integer part of population_size / 2; for an odd population_size
\* it is (population_size - 1) / 2, less than half the population.
C12_SmallestEvenAboveIntegerHalf ==
    Selected =>
        /\ gen.selection_count % 2 = 0
        /\ gen.selection_count >= population_size \div 2
        /\ gen.selection_count - 2 < population_size \div 2
        /\ population_size % 2 = 1 => 2 * gen.selection_count = population_size - 1

\* A selection in a world of five points: 12 of the 25 individuals.
C12_Witness ==
    /\ Called
    /\ population_size = 25
    /\ gen.selection_count = 12
    /\ Len(gen.selected) = 12

\* C13: a selection that returns has selection_count / 2 pairs, pair i being
\* the i-th drawn individual with the one selection_count / 2 places after
\* it; every pair is crossed at its own cut into two children, so the new
\* generation holds selection_count children, all of which are put behind the
\* population before it is cut back to population_size.
C13_PairsAndChildren ==
    Called =>
        /\ Len(gen.selected) = gen.selection_count
        /\ 2 * Len(gen.pairs) = gen.selection_count
        /\ \A i \in 1..Len(gen.pairs) :
              /\ gen.pairs[i][1] = gen.selected[i]
              /\ gen.pairs[i][2] = gen.selected[Len(gen.pairs) + i]
              /\ \E c \in {crossover(gen.pairs[i][1], gen.pairs[i][2],
                                      gen.cuts[i], Len(world))} :
                    /\ c.status = "ok"
                    /\ gen.children[2 * i - 1] = c.first
                    /\ gen.children[2 * i] = c.second
        /\ Len(gen.cuts) = Len(gen.pairs)
        /\ Len(gen.children) = gen.selection_count
        /\ Len(gen.new_generation) = gen.selection_count
        /\ Len(Merged) = population_size + gen.selection_count

\* A generation of two or more pairs in which the second drawn individual
\* differs from the partner of the first, and the children outnumber the
\* room the truncation leaves them.
C13_Witness ==
    /\ Called
    /\ Len(gen.pairs) >= 2
    /\ gen.selected[2] # gen.selected[Len(gen.pairs) + 1]
    /\ gen.pairs[1][1] # gen.pairs[1][2]
    /\ Len(Merged) > Len(population)

----------------------------------------------------------------------------
(* Properties of mutation, checked under Spec.                             *)

\* child is original with the genes at the positions start .. end (from 0)
\* in reversed order and every other gene in its place.
InvertedBetween(child, original, start, end) ==
    /\ 0 <= start
    /\ start <= end
    /\ end <= Len(original) - 1
    /\ Len(child) = Len(original)
    /\ \A p \in 0..(Len(original) - 1) :
          child[p + 1] = IF start <= p /\ p <= end
                         THEN original[start + end - p + 1]
                         ELSE original[p + 1]

\* What the last mutation did to the children of the crossover.
MutationShape ==
    /\ Len(gen.log) = Len(gen.children)
    /\ Len(gen.new_generation) = Len(gen.children)
    /\ \A i \in 1..Len(gen.children) :
          IF gen.log[i].mutated
          THEN InvertedBetween(gen.new_generation[i], gen.children[i],
                               gen.log[i].start, gen.log[i].end)
          ELSE gen.new_generation[i] = gen.children[i]

\* C14: in every __next__ call that returns, the list the merge works on is
\* the population as it was before the call, tour for tour, followed by the
\* new generation: mutation touched no tour of the population.  A mutated
\* child is the child of the crossover with the genes at start .. end
\* reversed, 0 <= start <= end <= N-1, and the rest in place; a child that
\* was not chosen is the child of the crossover unchanged.
C14_MutationFrame ==
    [][(pc = "iter" /\ pc' = "yielded") =>
          /\ \A t \in Range(population) \cup Range(gen'.sorted) :
                Count(gen'.sorted, t) = Count(population, t)
          /\ MutationShape']_vars

\* A generation in which one child was mutated between two indexes that are
\* not the ends of the tour, another was left alone, and the population
\* held a tour equal to the child before its mutation.
C14_Witness ==
    /\ Called
    /\ MutationShape
    /\ \E i \in 1..Len(gen.log) :
          /\ gen.log[i].mutated
          /\ gen.log[i].end < Len(world) - 1
          /\ gen.new_generation[i] # gen.children[i]
          /\ gen.children[i] \in Range(gen.sorted)
    /\ \E i \in 1..Len(gen.log) : ~gen.log[i].mutated

----------------------------------------------------------------------------
(* PossibleSolution.cost on its own: any path of distinct indexes into any  *)
(* of the worlds, the empty path and the paths of one index included.      *)

\* Every sequence of distinct indexes below n, of any length up to n.
SubPaths(n) ==
    UNION { {p \in [1..k -> 0..(n - 1)] : \A i, j \in 1..k : p[i] = p[j] => i = j} :
            k \in 0..n }

InitCost ==
    /\ world \in Worlds
    /\ next_solution \in SubPaths(Len(world))
    /\ pc = "cost"
    /\ last_cost = Inf
    /\ population_size = 0
    /\ population = <<>>
    /\ population_set = {}
    /\ WorldIsBuilt
    /\ tape = <<0>>
    /\ rpos = 0
    /\ same_count = 1
    /\ last = Inf
    /\ yielded = <<>>
    /\ iteration = 1
    /\ printed = <<>>
    /\ error = ""
    /\ gen = NoCall

\* curr_cost = solution.cost(world)
EvaluateCost ==
    /\ pc = "cost"
    /\ last_cost' = cost(next_solution, world)
    /\ pc' = "costed"
    /\ UNCHANGED <<world_locals, world, population_size, population, population_set, tape, rpos,
                   same_count, last, next_solution, yielded, iteration, printed,
                   error, gen>>

SpecCost == InitCost /\ [][EvaluateCost]_vars

\* The distances between the consecutive points of a path: one for every
\* i in 0 .. len(path) - 2.
Edges(path, points) ==
    [i \in 1..(IF Len(path) = 0 THEN 0 ELSE Len(path) - 1) |->
        distance_to(points[path[i] + 1], points[path[i + 1] + 1])]

\* C15: the cost of a path is the sum of the distances between its
\* consecutive points and of nothing else (no way back from the last point
\* to the first); it is never negative, and it is 0 for a path of no point
\* or one point.
C15_OpenPathCost ==
    pc = "costed" =>
        /\ last_cost = SumTo(Edges(next_solution, world), Len(Edges(next_solution, world)))
        /\ Sign(last_cost) >= 0
        /\ Len(next_solution) <= 1 => last_cost = Zero

\* The cost of a path of three or more points whose ends lie apart, so that
\* a closed tour would cost more, and which has a diagonal step.
C15_Witness ==
    /\ pc = "costed"
    /\ Len(next_solution) >= 3
    /\ last_cost.b > 0
    /\ Sign(distance_to(world[next_solution[Len(next_solution)] + 1],
                         world[next_solution[1] + 1])) > 0
    /\ C15_OpenPathCost

----------------------------------------------------------------------------
(* World.__init__ on its own: the loop that draws points until the set     *)
(* holds points_count of them.  pc is "world" while the loop runs and      *)
(* "built" once self.points is assigned.                                   *)

Coordinates == COORDINATE_MIN..CoordinateMax

\* The number of different points the coordinate range holds.
Capacity == Cardinality(Coordinates \X Coordinates)

\* The points of a set in ascending order of (x, y).
RECURSIVE PointsAscending(_)
PointsAscending(points) ==
    IF points = {} THEN <<>>
    ELSE LET lowest == CHOOSE p \in points :
                          \A q \in points : p.x < q.x \/ (p.x = q.x /\ p.y <= q.y)
         IN  <<lowest>> \o PointsAscending(points \ {lowest})

InitWorld ==
    /\ points_count \in 0..(Capacity + 1)
    /\ points_set = {}
    /\ drawn = NoPoint
    /\ world = <<>>
    /\ pc = "world"
    /\ population_size = 0
    /\ population = <<>>
    /\ population_set = {}
    /\ tape = <<0>>
    /\ rpos = 0
    /\ same_count = 1
    /\ last = Inf
    /\ next_solution = <<>>
    /\ yielded = <<>>
    /\ iteration = 1
    /\ last_cost = Inf
    /\ printed = <<>>
    /\ error = ""
    /\ gen = NoCall

\* Lines 30-33: one turn of the loop.
DrawPoint ==
    /\ pc = "world"
    /\ Cardinality(points_set) < points_count
    /\ \E x \in Coordinates, y \in Coordinates :
          /\ drawn' = Pt(x, y)
          /\ points_set' = points_set \cup {Pt(x, y)}
    /\ UNCHANGED <<points_count, world, population_size, population, population_set,
                   tape, rpos, pc, same_count, last, next_solution, yielded,
                   iteration, last_cost, printed, error, gen>>

\* Line 34, once the loop test fails: self.points = tuple(points_set), in
\* the order in which the set is iterated.
FinishWorld ==
    /\ pc = "world"
    /\ ~(Cardinality(points_set) < points_count)
    /\ world' \in {PointsAscending(points_set), Reversed(PointsAscending(points_set))}
    /\ pc' = "built"
    /\ UNCHANGED <<world_locals, population_size, population, population_set,
                   tape, rpos, same_count, last, next_solution, yielded,
                   iteration, last_cost, printed, error, gen>>

NextWorld == DrawPoint \/ FinishWorld

\* The loop does not pause: a turn that can be taken is taken.
SpecWorld == InitWorld /\ [][NextWorld]_vars /\ WF_vars(NextWorld)

\* C16 as stated: a construction that asks for more points than the
\* coordinate range holds ends with a CapacityExceeded error, and one that
\* asks for no more than that yields exactly points_count different points.
C16_ConstructionEnds ==
    /\ (points_count > Capacity) ~> (error = "CapacityExceeded")
    /\ [](pc = "built" => /\ Len(world) = points_count
                          /\ Cardinality(Range(world)) = points_count)

----------------------------------------------------------------------------
(* Properties of the whole run, checked under Spec.                        *)

\* C17 as stated: when the generator has ended, the final line the driver
\* prints holds the number of generations the generator produced and the
\* cost of the last tour it yielded.
C17_FinalCount ==
    pc = "done" =>
        /\ printed[1] = Len(yielded)
        /\ printed[2] = yielded[Len(yielded)]

\* C18 as stated: in a world of two or more different points no __next__
\* call raises, whatever the draws: the run never ends in an exception.
C18_NeverFails ==
    Len(world) >= 2 => (pc # "failed" /\ error = "" /\ gen.status \in {"none", "ok"})

----------------------------------------------------------------------------
(* Termination of the run.  Nothing is assumed of the draws: every step of *)
(* every run lowers a measure that is a natural number, so no run has      *)
(* more steps than the measure of its first state.                         *)

\* The different costs the tours of a world have.
TourCosts(points) ==
    {cost(PathOfRank(Len(points), r), points) : r \in 0..(factorial(Len(points)) - 1)}

\* How many different tour costs lie strictly below the best cost so far.
CostsBelow(best, points) ==
    Cardinality({c \in TourCosts(points) : IsInf(best) \/ Less(c, best)})

\* 0 once the run has ended; before that, one more than twice the number of
\* loop tests the generator can still pass (STOP_CONDITION_SAME_COUNT for
\* every cost the best cost can still fall to, and those left of the
\* current count), and one more while the driver holds a yielded solution.
MeasureOf(at, count, best, points) ==
    IF at \in {"done", "failed"} THEN 0
    ELSE 1 + 2 * (STOP_CONDITION_SAME_COUNT * CostsBelow(best, points)
                    + (STOP_CONDITION_SAME_COUNT - 1 - count))
           + (IF at = "yielded" THEN 1 ELSE 0)

Measure == MeasureOf(pc, same_count, last, world)

\* The places of the yielded sequence where the counter was reset: the first
\* generation and every generation whose cost differs from the one before.
Resets(costs) == {i \in 1..Len(costs) : i = 1 \/ costs[i] # costs[i - 1]}

\* C19: every run ends after finitely many generations, whatever the world
\* and the draws.  Every step lowers Measure, which is never negative; no
\* call of __next__ runs forever; the counter is reset only by the first
\* generation and by a strictly lower best cost, so there are no more
\* resets than different tour costs and no more generations than
\* STOP_CONDITION_SAME_COUNT for each of them.
C19_Terminates ==
    [][\E at \in {pc'}, count \in {same_count'}, best \in {last'},
          costs \in {yielded'}, status \in {gen'.status} :
          /\ MeasureOf(at, count, best, world) < Measure
          /\ MeasureOf(at, count, best, world) >= 0
          /\ status # "hang"
          /\ at \in {"iter", "yielded", "done", "failed"}
          /\ \A i \in Resets(costs) : i = 1 \/ Less(costs[i], costs[i - 1])
          /\ (at = "yielded" /\ count = 0) => Len(costs) \in Resets(costs)
          /\ Cardinality(Resets(costs)) <= Cardinality(TourCosts(world))
          /\ Len(costs) <= STOP_CONDITION_SAME_COUNT * Cardinality(TourCosts(world))]_vars

\* A run that has ended after more generations than one count to the
\* threshold takes: its best cost fell after it had stayed the same.
C19_Witness ==
    /\ pc = "done"
    /\ Cardinality(Resets(yielded)) >= 2
    /\ \E i \in Resets(yielded) : i > 2 /\ (i - 1) \notin Resets(yielded)
    /\ Len(yielded) > STOP_CONDITION_SAME_COUNT

====
